---- MODULE Spec2Model ----
(***************************************************************************)
(* A model of the rjs dependency resolver (src/src/dependency/mod.rs) as   *)
(* it is driven by `rjs install <packages>` (src/src/cli/commands/         *)
(* install.rs): one DependencyResolver per process, one                    *)
(* resolve_and_install call, batch tasks interleaving at the registry      *)
(* fetch, which is the only await of resolve_package.                      *)
(*                                                                         *)
(* Representation.  A version string "x.y.z" is the triple <<x, y, z>>     *)
(* (only numeric release versions occur).  A range-spec string is a record *)
(* [kind, v]: "^x.y.z" is kind "caret", a bare "x.y.z" is kind "bare",     *)
(* "*" is kind "star" and the dist-tag "latest" is kind "tag".  The string *)
(* format!("{}@{}", name, range) is the pair <<name, range>>.  A HashMap   *)
(* is a function on its key set; the order in which a HashMap is iterated  *)
(* is a nondeterministic choice of the action that iterates it.            *)
(***************************************************************************)
EXTENDS Integers, Sequences, FiniteSets, TLC

\* ---------------------------------------------------------------- bounds

\* Largest number of top-level requests given on the command line.
MaxTop == 2

\* Largest value passed to --concurrency.
MaxConcurrency == 2

\* The number of calls made to the registry client.
MaxRequests == 102
MaxVersions == 3

\* ---------------------------------------------------------------- semver

V(a, b, c) == <<a, b, c>>

\* Ord for semver::Version, restricted to release versions.
VLess(a, b) ==
    \/ a[1] < b[1]
    \/ a[1] = b[1] /\ a[2] < b[2]
    \/ a[1] = b[1] /\ a[2] = b[2] /\ a[3] < b[3]

Caret(a, b, c) == [kind |-> "caret", v |-> V(a, b, c)]
Bare(v) == [kind |-> "bare", v |-> v]
Star == [kind |-> "star", v |-> V(0, 0, 0)]
Latest == [kind |-> "tag", v |-> V(0, 0, 0)]

\* VersionReq::parse: a bare version is a caret requirement, "*" is the
\* requirement without comparators, a dist-tag is a parse error.
VersionReqParse(r) ==
    CASE r.kind = "caret" -> [ok |-> TRUE, op |-> "caret", v |-> r.v]
      [] r.kind = "bare" -> [ok |-> TRUE, op |-> "caret", v |-> r.v]
      [] r.kind = "star" -> [ok |-> TRUE, op |-> "star", v |-> r.v]
      [] OTHER -> [ok |-> FALSE, op |-> "star", v |-> r.v]

VersionReqSTAR == [ok |-> TRUE, op |-> "star", v |-> V(0, 0, 0)]

\* The caret comparator of the semver crate: ^x.y.z with x > 0 admits
\* >= x.y.z below (x+1).0.0, ^0.y.z with y > 0 admits >= 0.y.z below
\* 0.(y+1).0, and ^0.0.z admits exactly 0.0.z.
CaretMatches(c, v) ==
    /\ v[1] = c[1]
    /\ IF c[1] > 0
       THEN ~VLess(v, c)
       ELSE IF c[2] > 0
            THEN v[2] = c[2] /\ v[3] >= c[3]
            ELSE v[2] = 0 /\ v[3] = c[3]

\* VersionReq::matches on a release version.
ReqMatches(req, v) ==
    IF req.op = "star" THEN TRUE ELSE CaretMatches(req.v, v)

\* VersionReq::parse(r).unwrap_or(VersionReq::STAR)
ParseOrStar(r) ==
    IF VersionReqParse(r).ok THEN VersionReqParse(r) ELSE VersionReqSTAR

\* ---------------------------------------------------------------- values

Names == {"a", "c", "lib"}

Key(name, range) == <<name, range>>

NoDeps == <<>>

Dep1(n, r) == (n :> r)

Package(n, v, deps) == [name |-> n, version |-> v, dependencies |-> deps]

\* The package returned for a request whose key is already in `visited`.
DummyPackage(n) == Package(n, V(0, 0, 0), NoDeps)

\* ------------------------------------------------------------- registries
\* A registry snapshot maps every name to its record: whether the registry
\* has the package (a GET of a missing name is an HTTP error), the
\* dependencies of each version, and the version dist-tags.latest names.

NoRecord == [exists |-> FALSE, versions |-> <<>>, latest |-> V(0, 0, 0)]

Record(vs, latest) == [exists |-> TRUE, versions |-> vs, latest |-> latest]

\* a@1.2.0 depends on c ^2.0.0; c@2.3.1 has no dependencies.
RegTransitive ==
    [n \in Names |->
        CASE n = "a" -> Record(V(1, 2, 0) :> Dep1("c", Caret(2, 0, 0)), V(1, 2, 0))
          [] n = "c" -> Record(V(2, 3, 1) :> NoDeps, V(2, 3, 1))
          [] OTHER -> NoRecord]

\* a depends on lib ^1.0.0, c on lib ^1.2.0; lib has 1.0.0 and 1.3.0.
RegDedup ==
    [n \in Names |->
        CASE n = "a" -> Record(V(1, 0, 0) :> Dep1("lib", Caret(1, 0, 0)), V(1, 0, 0))
          [] n = "c" -> Record(V(1, 0, 0) :> Dep1("lib", Caret(1, 2, 0)), V(1, 0, 0))
          [] n = "lib" -> Record(V(1, 0, 0) :> NoDeps @@ V(1, 3, 0) :> NoDeps,
                                 V(1, 3, 0))
          [] OTHER -> NoRecord]

\* a depends on lib ^1.0.0, c on lib ^2.0.0; lib has 1.5.0 and 2.0.0.
RegConflict ==
    [n \in Names |->
        CASE n = "a" -> Record(V(1, 0, 0) :> Dep1("lib", Caret(1, 0, 0)), V(1, 0, 0))
          [] n = "c" -> Record(V(1, 0, 0) :> Dep1("lib", Caret(2, 0, 0)), V(1, 0, 0))
          [] n = "lib" -> Record(V(1, 5, 0) :> NoDeps @@ V(2, 0, 0) :> NoDeps,
                                 V(2, 0, 0))
          [] OTHER -> NoRecord]

\* a@1.0.0 depends on c ^1.0.0 and c@1.0.0 depends on a ^1.0.0.
RegCycle ==
    [n \in Names |->
        CASE n = "a" -> Record(V(1, 0, 0) :> Dep1("c", Caret(1, 0, 0)), V(1, 0, 0))
          [] n = "c" -> Record(V(1, 0, 0) :> Dep1("a", Caret(1, 0, 0)), V(1, 0, 0))
          [] OTHER -> NoRecord]

\* lib has 1.0.0, 1.3.0 and 2.0.0 with dist-tags.latest = 1.3.0; a depends
\* on lib * and on c ^1.0.0.
RegTag ==
    [n \in Names |->
        CASE n = "a" -> Record(V(1, 0, 0) :> (Dep1("lib", Star) @@ Dep1("c", Caret(1, 0, 0))),
                               V(1, 0, 0))
          [] n = "c" -> Record(V(1, 0, 0) :> NoDeps, V(1, 0, 0))
          [] n = "lib" -> Record(V(1, 0, 0) :> NoDeps @@ V(1, 3, 0) :> NoDeps
                                   @@ V(2, 0, 0) :> NoDeps,
                                 V(1, 3, 0))
          [] OTHER -> NoRecord]

Registries == {RegTransitive, RegDedup, RegConflict, RegCycle, RegTag}

\* a 1.0.0 depends on lib ^3.0.0, and lib has 1.0.0 only: no version of lib
\* matches the range of a's request.
RegUnmatched ==
    [n \in Names |->
        CASE n = "a" -> Record(V(1, 0, 0) :> Dep1("lib", Caret(3, 0, 0)), V(1, 0, 0))
          [] n = "lib" -> Record(V(1, 0, 0) :> NoDeps, V(1, 0, 0))
          [] OTHER -> NoRecord]

\* The range-specs a top-level request may carry.
TopRanges == {Caret(1, 0, 0), Caret(2, 0, 0), Latest}

\* ------------------------------------------------------------------ state

VARIABLES
    reg,           \* the registry snapshot the process talks to
    packages,      \* packages_to_install, as the map name -> range-spec
    isDev,         \* opts.save_dev
    concurrency,   \* DependencyResolver.concurrency
    pc,            \* position of resolve_and_install
    rootDeps,      \* root_pkg.dependencies
    visited,       \* DependencyResolver.visited
    cache,         \* DependencyResolver.package_cache
    dedup,         \* DependencyResolver.deduplication.packages
    workQueue,     \* work_queue
    batch,         \* the batch being processed by buffer_unordered
    created,       \* number of batch items whose future buffer_unordered created
    ready,         \* the futures to poll, in the order they will be polled
    inflight,      \* batch indices awaiting get_package_info
    dependencies,  \* the `dependencies` map, later tree.dependencies
    calls,         \* history: the resolve_package calls that returned
    run,           \* number of the running process
    prev,          \* history: what the previous process resolved
    frozen,        \* opts.frozen
    noSave,        \* opts.no_save
    manifest,      \* the file package.json
    lockfile,      \* the file rjs-lock.json
    nodeModules,   \* the directory node_modules
    handles,       \* position of each task spawned by install_from_lockfile
    installed,     \* the packages resolve_and_install returned
    fetches,       \* history: names get_package_info was called with
    downloads,     \* history: URLs download_package was called with
    start,         \* history: the files when the process started
    fsFails,       \* the names whose directory in node_modules cannot be created
    pkgJson,       \* the files node_modules/<name>/package.json
    http,          \* the registry client's semaphore and its requests
    devCall,       \* position of the second resolve_and_install of a join
    lastInstalled, \* history: per name, the node install_tree handled last
    passIn,        \* history: the tree deduplicate_tree was called with
    lookup         \* history: the last call of find_compatible_version

\* The command's other options, the files of the project and the replay of a
\* lockfile.
installVars == <<frozen, noSave, manifest, lockfile, nodeModules, handles,
                 installed, downloads, start>>

\* The faults of the filesystem, the package.json files of the installed
\* packages, the registry client and the second call of an install from the
\* manifest.
extraVars == <<fsFails, pkgJson, http, devCall>>

\* What the calls of install_tree, deduplicate_tree and
\* find_compatible_version were made with and gave.
histVars == <<lastInstalled, passIn, lookup>>

vars == <<reg, packages, isDev, concurrency, pc, rootDeps, visited, cache, dedup,
          workQueue, batch, created, ready, inflight, dependencies, calls, run,
          prev, frozen, noSave, manifest, lockfile, nodeModules, handles,
          installed, fetches, downloads, start, fsFails, pkgJson, http, devCall,
          lastInstalled, passIn, lookup>>

\* The sequences that enumerate the finite set S once each: the orders in
\* which a HashMap with key set S can be iterated.
Orders(S) ==
    {s \in [1..Cardinality(S) -> S] : \A i, j \in DOMAIN s : s[i] = s[j] => i = j}

\* HashMap::insert
Insert(m, k, x) == [y \in DOMAIN m \cup {k} |-> IF y = k THEN x ELSE m[y]]

\* Batch size of a resolver built by DependencyResolver::new.
batch_size == 50

\* Semaphore::new(100) of the registry client
rate_limit == 100

Min(a, b) == IF a < b THEN a ELSE b

Max(a, b) == IF a < b THEN b ELSE a

\* concurrency.max(1)
with_concurrency(c) == Max(c, 1)

\* The maps of at most MaxTop top-level requests: root_pkg's HashMap keeps
\* one range per name.
RequestMaps ==
    UNION {[S -> TopRanges] : S \in {T \in SUBSET Names : Cardinality(T) \in 1..MaxTop}}

\* -------------------------------------------------------------- strings
\* The keys of the lockfile are strings that the replay splits at '@', so a
\* string is modelled as the sequence of its pieces: the character '@', a
\* rendered version, or a run of other characters.

Tok(kind, s, v) == [kind |-> kind, s |-> s, v |-> v]

At == Tok("at", "", V(0, 0, 0))

Txt(s) == Tok("txt", s, V(0, 0, 0))

Ver(v) == Tok("ver", "", v)

\* A scoped package name, `@s/lib`, and what follows its '@'.
Scoped == "@s/lib"

ScopedRest == "s/lib"

\* The pieces of a package name.
NameTokens(n) == IF n = Scoped THEN <<At, Txt(ScopedRest)>> ELSE <<Txt(n)>>

\* The pieces of a range-spec string.
RangeTokens(r) ==
    IF r.kind = "caret" THEN <<Txt("^"), Ver(r.v)>>
    ELSE IF r.kind = "star" THEN <<Txt("*")>>
    ELSE IF r.kind = "tag" THEN <<Txt("latest")>>
    ELSE <<Ver(r.v)>>

\* format!("{}@{}", dep_name, dep_version): the key of a node in the tree.
KeyString(key) == NameTokens(key[1]) \o <<At>> \o RangeTokens(key[2])

\* format!("{}@{}", pkg.name, pkg.version): the key of a lockfile entry.
LockKey(name, version) == NameTokens(name) \o <<At>> \o <<Ver(version)>>

\* str::split('@'): the sequence of the pieces between the '@'s.
RECURSIVE Split(_)
Split(s) ==
    IF s = <<>> THEN << <<>> >>
    ELSE LET rest == Split(Tail(s))
         IN  IF Head(s) = At
             THEN << <<>> >> \o rest
             ELSE << <<Head(s)>> \o rest[1] >> \o Tail(rest)

\* The string made of the pieces of a name: the empty string, or the one
\* run of characters.
PieceString(piece) == IF piece = <<>> THEN "" ELSE piece[1].s

\* ------------------------------------------------------------- lockfile

\* format!("{}/{}-{}.tgz", registry, pkg.name, pkg.version)
Url(name, version) == [name |-> name, version |-> version]

LockfileEntry(pkg) ==
    [version |-> pkg.version,
     resolved |-> Url(pkg.name, pkg.version),
     integrity |-> LockKey(pkg.name, pkg.version),
     dependencies |-> pkg.dependencies]

\* Lockfile::new
LockfileNew(name, version) ==
    [name |-> name, version |-> version, lockfile_version |-> V(1, 0, 0),
     packages |-> <<>>]

\* Lockfile::add_package
add_package(lock, pkg) ==
    [lock EXCEPT !.packages =
        Insert(@, LockKey(pkg.name, pkg.version), LockfileEntry(pkg))]

\* generate_lockfile: the packages of the tree are added in the order
\* `order` of its keys.
RECURSIVE AddPackages(_, _, _)
AddPackages(lock, tree, order) ==
    IF order = <<>> THEN lock
    ELSE AddPackages(add_package(lock, tree[Head(order)]), tree, Tail(order))

generate_lockfile(tree, order) ==
    AddPackages(LockfileNew("root", V(0, 0, 0)), tree, order)

\* The file rjs-lock.json: absent, the JSON of a lockfile, or something else.
NoFile == [kind |-> "absent", lock |-> LockfileNew("", V(0, 0, 0))]

Garbage == [kind |-> "garbage", lock |-> LockfileNew("", V(0, 0, 0))]

\* save_lockfile: serde_json::to_string_pretty of the lockfile.
save_lockfile(lock) == [kind |-> "json", lock |-> lock]

\* A variant of load_lockfile that never finds a lockfile.
LoadLockfileNone(file) == [ok |-> TRUE, some |-> FALSE, lock |-> file.lock]

\* A variant of load_lockfile that takes an unreadable file for a missing one.
LoadLockfileLenient(file) ==
    [ok |-> TRUE, some |-> file.kind = "json", lock |-> file.lock]

\* load_lockfile: Ok(None) without the file, the error of serde_json::from_str
\* when the content is no lockfile, Ok(Some(lockfile)) otherwise.
load_lockfile(file) ==
    IF file.kind = "absent" THEN [ok |-> TRUE, some |-> FALSE, lock |-> file.lock]
    ELSE IF file.kind = "json" THEN [ok |-> TRUE, some |-> TRUE, lock |-> file.lock]
    ELSE [ok |-> FALSE, some |-> FALSE, lock |-> file.lock]

\* ------------------------------------------------ node_modules, manifest

\* node_modules: whether it exists and the package directories in it.
NoNodeModules == [exists |-> FALSE, dirs |-> {}]

\* Path::exists of node_modules_dir.join(name): joining the empty name gives
\* node_modules itself.
DirExists(nm, name) == nm.exists /\ (name = "" \/ name \in nm.dirs)

\* fs::create_dir_all(node_modules_dir.join(name))
CreateDirAll(nm, name) ==
    [exists |-> TRUE, dirs |-> IF name = "" THEN nm.dirs ELSE nm.dirs \cup {name}]

\* A variant of install_tree that creates node_modules and nothing in it.
InstallTreeRootOnly(nm, tree) == [exists |-> TRUE, dirs |-> nm.dirs]

\* install_tree: node_modules is created and one directory per package.
install_tree(nm, tree) ==
    [exists |-> TRUE, dirs |-> nm.dirs \cup {tree[k].name : k \in DOMAIN tree}]

\* The loop of install_tree over the tree in the order `order`, with the
\* package.json files of node_modules in `files` and the names in `fails`
\* those whose directory cannot be created: a directory that exists is left
\* as it is, a missing one is created and its package.json written from the
\* node, and the first error of create_dir_all ends the call (`?`).
RECURSIVE InstallSteps(_, _, _, _, _)
InstallSteps(nm, files, tree, order, fails) ==
    IF order = <<>> THEN [ok |-> TRUE, nm |-> nm, files |-> files]
    ELSE LET pkg == tree[Head(order)]
         IN  IF DirExists(nm, pkg.name)
             THEN InstallSteps(nm, files, tree, Tail(order), fails)
             ELSE IF pkg.name \in fails
             THEN [ok |-> FALSE, nm |-> nm, files |-> files]
             ELSE InstallSteps(CreateDirAll(nm, pkg.name),
                               Insert(files, pkg.name, pkg),
                               tree, Tail(order), fails)

\* Per name, the node of the tree that comes last in the order `order`: the
\* one whose turn of the loop of install_tree is the last for its directory.
RECURSIVE LastOfName(_, _, _)
LastOfName(last, tree, order) ==
    IF order = <<>> THEN last
    ELSE LastOfName(Insert(last, tree[Head(order)].name, tree[Head(order)]),
                    tree, Tail(order))

\* package.json: whether it exists and its two dependency fields (a field
\* that is missing is the empty map with present = FALSE).
Field(present, map) == [present |-> present, map |-> map]

NoField == Field(FALSE, <<>>)

\* The top-level fields of package.json other than the two dependency
\* fields.
ManifestRest == [name |-> "project", version |-> V(1, 0, 0)]

Manifest(exists, deps, devDeps) ==
    [exists |-> exists, dependencies |-> deps, devDependencies |-> devDeps,
     rest |-> ManifestRest]

NoManifest == Manifest(FALSE, NoField, NoField)

\* A manifest with a name and a version only.
BareManifest == Manifest(TRUE, NoField, NoField)

\* The manifest `rjs init --yes` writes.
InitManifest == Manifest(TRUE, Field(TRUE, <<>>), Field(TRUE, <<>>))

\* The maps execute can build from the returned packages: one entry per
\* name, and for a name returned at several versions the version of the
\* package that comes last.
SavedMaps(pkgs) ==
    LET names == {p.name : p \in pkgs}
    IN  {m \in [names -> {p.version : p \in pkgs}] :
            \A n \in names : \E p \in pkgs : p.name = n /\ p.version = m[n]}

RECURSIVE InsertAll(_, _, _)
InsertAll(map, new, todo) ==
    IF todo = {} THEN map
    ELSE LET n == CHOOSE x \in todo : TRUE
         IN  InsertAll(Insert(map, n, Bare(new[n])), new, todo \ {n})

\* A variant of update_package_json that writes the chosen field anew from
\* the given map.
UpdatePackageJsonReplace(m, new, dev) ==
    IF dev
    THEN [m EXCEPT !.devDependencies =
                Field(TRUE, InsertAll(<<>>, new, DOMAIN new))]
    ELSE [m EXCEPT !.dependencies =
                Field(TRUE, InsertAll(<<>>, new, DOMAIN new))]

\* update_package_json: the field is created when missing and gets the
\* entries name -> version string.
update_package_json(m, new, dev) ==
    IF dev
    THEN [m EXCEPT !.devDependencies =
                Field(TRUE, InsertAll(@.map, new, DOMAIN new))]
    ELSE [m EXCEPT !.dependencies =
                Field(TRUE, InsertAll(@.map, new, DOMAIN new))]

\* ------------------------------------------------------------ processes

\* The state of a process that has built its resolver and not yet called
\* resolve_and_install.
Fresh ==
    /\ pc = "start"
    /\ rootDeps = <<>>
    /\ visited = {}
    /\ cache = <<>>
    /\ dedup = [n \in Names |-> <<>>]
    /\ workQueue = <<>>
    /\ batch = <<>>
    /\ created = 0
    /\ ready = <<>>
    /\ inflight = {}
    /\ dependencies = <<>>
    /\ calls = {}
    /\ handles = <<>>
    /\ installed = {}
    /\ fetches = {}
    /\ downloads = {}

\* The registry client and its clones: the free permits of the shared
\* semaphore, the calls of get_package_info and download_package still to
\* come (`idle`; with no free permit they wait in acquire), the requests of
\* each kind that hold a permit, and whether a request has failed.  Before
\* any request every permit is free.
HttpIdle ==
    [permits |-> rate_limit, idle |-> 0, metadata |-> 0, tarball |-> 0,
     failed |-> FALSE]

\* A project in which every directory can be created, no package was
\* installed, and no second call runs beside the first.
Plain ==
    /\ fsFails = {}
    /\ pkgJson = <<>>
    /\ http = HttpIdle
    /\ devCall = "none"

\* No call of install_tree, of deduplicate_tree by itself or of
\* find_compatible_version by itself has been made.
NoHistory ==
    /\ lastInstalled = <<>>
    /\ passIn = <<>>
    /\ lookup = [name |-> "", range |-> Star,
                 result |-> [some |-> FALSE, v |-> V(0, 0, 0)]]

\* The command `install <packages>` in a project that `init` just created.
Init ==
    /\ reg \in Registries
    /\ packages \in RequestMaps
    /\ isDev \in BOOLEAN
    /\ concurrency \in {with_concurrency(c) : c \in 0..MaxConcurrency}
    /\ run = 1
    /\ prev = [nodes |-> {}, dev |-> FALSE]
    /\ frozen = FALSE
    /\ noSave = FALSE
    /\ manifest = InitManifest
    /\ lockfile = NoFile
    /\ nodeModules = NoNodeModules
    /\ start = [manifest |-> manifest, lockfile |-> lockfile,
                nodeModules |-> nodeModules]
    /\ Fresh
    /\ Plain
    /\ NoHistory

\* ------------------------------------------------- deduplication index

Some(v) == [some |-> TRUE, v |-> v]

None == [some |-> FALSE, v |-> V(0, 0, 0)]

\* SortDescending with the comparison the other way round: a.cmp(b).
SortAscending(entries) ==
    CHOOSE s \in Orders(entries) :
        \A i, j \in DOMAIN s : i < j => VLess(s[i][1], s[j][1])

\* versions.sort_by(|a, b| b.cmp(a)) on entries with pairwise different
\* versions: the one descending arrangement.
SortDescending(entries) ==
    CHOOSE s \in Orders(entries) :
        \A i, j \in DOMAIN s : i < j => VLess(s[j][1], s[i][1])

Elements(s) == {s[i] : i \in DOMAIN s}

\* DependencyDeduplication::register_package: the list of `name` after
\* registering (version, spec).
register_package(index, name, version, spec) ==
    IF \E e \in Elements(index[name]) : e[1] = version
    THEN index
    ELSE [index EXCEPT ![name] =
            SortDescending(Elements(index[name]) \cup {<<version, spec>>})]

\* DependencyDeduplication::find_compatible_version: the first entry of the
\* list that the requirement matches; nothing when the requirement does not
\* parse.
find_compatible_version(index, name, range) ==
    LET req == VersionReqParse(range)
        hits == {i \in DOMAIN index[name] : ReqMatches(req, index[name][i][1])}
    IN  IF ~req.ok \/ hits = {}
        THEN None
        ELSE Some(index[name][CHOOSE i \in hits : \A j \in hits : i <= j][1])

\* ----------------------------------------------------- version selection

\* Iterator::max_by over the candidates, by pairwise comparison.
RECURSIVE MaxBy(_)
MaxBy(S) ==
    LET x == CHOOSE y \in S : TRUE
    IN  IF S = {x}
        THEN x
        ELSE LET m == MaxBy(S \ {x}) IN IF VLess(m, x) THEN x ELSE m

\* The version keys of the record that the parsed requirement matches.
Candidates(record, range) ==
    {v \in DOMAIN record.versions : ReqMatches(ParseOrStar(range), v)}

\* BestVersion with min_by in place of max_by.
BestVersionLeast(record, range) ==
    IF Candidates(record, range) = {}
    THEN None
    ELSE Some(CHOOSE v \in Candidates(record, range) :
                  \A w \in Candidates(record, range) : ~VLess(w, v))

\* BestVersion giving no version for a range that does not parse.
BestVersionStrict(record, range) ==
    IF ~VersionReqParse(range).ok \/ Candidates(record, range) = {}
    THEN None
    ELSE Some(MaxBy(Candidates(record, range)))

\* best_version of resolve_package: the greatest candidate, if any.
BestVersion(record, range) ==
    IF Candidates(record, range) = {}
    THEN None
    ELSE Some(MaxBy(Candidates(record, range)))

\* ---------------------------------------------------------- work queue

\* PushNested without the visited set: every dependency is pushed.
RECURSIVE PushNestedUnchecked(_, _, _, _)
PushNestedUnchecked(vis, queue, deps, order) ==
    IF order = <<>>
    THEN [visited |-> vis, queue |-> queue]
    ELSE PushNestedUnchecked(vis, Append(queue, <<Head(order), deps[Head(order)]>>),
                             deps, Tail(order))

\* The loop over pkg.dependencies of a resolved batch item, iterating the
\* dependency names in the order `order`: a request whose key is not yet
\* visited is pushed on the queue and marked visited.
RECURSIVE PushNested(_, _, _, _)
PushNested(vis, queue, deps, order) ==
    IF order = <<>>
    THEN [visited |-> vis, queue |-> queue]
    ELSE LET n == Head(order)
             key == Key(n, deps[n])
         IN  IF key \in vis
             THEN PushNested(vis, queue, deps, Tail(order))
             ELSE PushNested(vis \cup {key}, Append(queue, <<n, deps[n]>>),
                             deps, Tail(order))

\* A record of `calls`: resolve_package(req) returned; `seen` tells whether
\* the key was cached or visited when it was called.
Call(req, seen, ok, version) ==
    [req |-> req, seen |-> seen, ok |-> ok, version |-> version]

\* The Ok arm of a batch task: resolve_package returned pkg for batch[i].
\* Its dependencies are pushed and the stream yields (key, pkg), which the
\* consuming loop inserts into `dependencies`.
TaskOk(i, pkg, vis, seen) ==
    \E order \in Orders(DOMAIN pkg.dependencies) :
        LET pushed == PushNested(vis, workQueue, pkg.dependencies, order)
        IN  /\ visited' = pushed.visited
            /\ workQueue' = pushed.queue
            /\ dependencies' = Insert(dependencies, Key(batch[i][1], batch[i][2]), pkg)
            /\ calls' = calls \cup {Call(batch[i], seen, TRUE, pkg.version)}

\* A variant of the Err arm in which the failure ends the resolve: what was
\* collected and what is queued is dropped.
TaskErrAbort(i) ==
    /\ calls' = calls \cup {Call(batch[i], FALSE, FALSE, V(0, 0, 0))}
    /\ dependencies' = <<>>
    /\ workQueue' = <<>>
    /\ UNCHANGED visited

\* The Err arm of a batch task: the failure is logged and the stream yields
\* None.
TaskErr(i) ==
    /\ calls' = calls \cup {Call(batch[i], FALSE, FALSE, V(0, 0, 0))}
    /\ UNCHANGED <<visited, workQueue, dependencies>>

\* ------------------------------------------------------------ post-pass

\* The keys of the nodes named `name`.
GroupKeys(tree, name) == {k \in DOMAIN tree : tree[k].name = name}

\* The names with more than one node: the groups deduplicate_tree works on.
MultiNames(tree) == {n \in Names : Cardinality(GroupKeys(tree, n)) > 1}

\* The results of the stable sort of a group by version, newest first, over
\* the orders in which the group can have been collected.
SortedGroups(tree, name) ==
    {s \in Orders(GroupKeys(tree, name)) :
        \A i, j \in DOMAIN s :
            i < j => ~VLess(tree[s[i]].version, tree[s[j]].version)}

\* CanDeduplicate comparing the requirement with the preferred version
\* string instead of matching it.
CanDeduplicateExact(tree, pname, pversion) ==
    \E k \in DOMAIN tree :
        /\ pname \in DOMAIN tree[k].dependencies
        /\ tree[k].dependencies[pname] = Bare(pversion)

\* can_deduplicate: some node of the tree depends on the preferred name
\* with a requirement the preferred version matches.
CanDeduplicate(tree, pname, pversion) ==
    \E k \in DOMAIN tree :
        /\ pname \in DOMAIN tree[k].dependencies
        /\ ReqMatches(ParseOrStar(tree[k].dependencies[pname]), pversion)

\* A variant of RemoveAndRewrite that removes the node and leaves the
\* dependency entries as they are.
RemoveOnly(tree, key, pname, pversion) == [k \in DOMAIN tree \ {key} |-> tree[k]]

\* tree.dependencies.remove(key), then every remaining dependency entry on
\* the preferred name is set to the preferred version string.
RemoveAndRewrite(tree, key, pname, pversion) ==
    [k \in DOMAIN tree \ {key} |->
        IF pname \in DOMAIN tree[k].dependencies
        THEN [tree[k] EXCEPT !.dependencies = Insert(@, pname, Bare(pversion))]
        ELSE tree[k]]

\* A variant of DedupGroup that leaves the loop after its first removal.
DedupGroupOnce(tree, sorted, i, pname, pversion) ==
    IF i <= Len(sorted) /\ CanDeduplicate(tree, pname, pversion)
    THEN RemoveAndRewrite(tree, sorted[i], pname, pversion)
    ELSE tree

\* The loop over sorted_packages.iter().skip(1), from position i on.
RECURSIVE DedupGroup(_, _, _, _, _)
DedupGroup(tree, sorted, i, pname, pversion) ==
    IF i > Len(sorted)
    THEN tree
    ELSE IF CanDeduplicate(tree, pname, pversion)
         THEN DedupGroup(RemoveAndRewrite(tree, sorted[i], pname, pversion),
                         sorted, i + 1, pname, pversion)
         ELSE DedupGroup(tree, sorted, i + 1, pname, pversion)

\* DependencyResolver::deduplicate_tree, the groups taken in the order
\* nameOrder and each group sorted as sortedOf gives it.  The groups and
\* their preferred packages are those of the tree the pass started with.
RECURSIVE deduplicate_tree(_, _, _, _)
deduplicate_tree(tree, tree0, nameOrder, sortedOf) ==
    IF nameOrder = <<>>
    THEN tree
    ELSE LET sorted == sortedOf[Head(nameOrder)]
             preferred == tree0[sorted[1]]
         IN  deduplicate_tree(
                 DedupGroup(tree, sorted, 2, preferred.name, preferred.version),
                 tree0, Tail(nameOrder), sortedOf)

\* The sorted orders of all the groups.
SortedChoices(tree) ==
    {f \in [MultiNames(tree) -> UNION {SortedGroups(tree, n) : n \in MultiNames(tree)}] :
        \A n \in MultiNames(tree) : f[n] \in SortedGroups(tree, n)}

\* The resolved set: the (name, version) pairs of the nodes of a tree.
Nodes(tree) == {<<tree[k].name, tree[k].version>> : k \in DOMAIN tree}

\* ---------------------------------------------------------------- actions
\* The batch is processed by stream::iter(batch).map(..).buffer_unordered(
\* concurrency), polled by the loop that inserts the results.  Each call of
\* stream.next() first creates futures until `concurrency` are in progress
\* and then polls the futures that are ready, oldest first: a new future is
\* ready when it is created, a future awaiting the registry when the
\* response arrives.  The call returns as soon as one future completes.

\* resolve_and_install up to the seeding of the work queue: the root
\* package gets the requests in `dependencies` unless is_dev, and the queue
\* is seeded from root_pkg.dependencies in its iteration order.
ResolveAndInstallBegin ==
    /\ pc = "start"
    /\ frozen => load_lockfile(lockfile).ok /\ ~load_lockfile(lockfile).some
    /\ LET deps == IF isDev THEN <<>> ELSE packages
       IN  /\ rootDeps' = deps
           /\ \E order \in Orders(DOMAIN deps) :
                 workQueue' = [i \in DOMAIN order |-> <<order[i], deps[order[i]]>>]
    /\ pc' = "drain"
    /\ UNCHANGED <<reg, packages, isDev, concurrency, visited, cache, dedup, batch,
                   created, ready, inflight, dependencies, calls, run, prev>>
    /\ UNCHANGED <<installVars, fetches>>
    /\ UNCHANGED extraVars
    /\ UNCHANGED histVars

\* Every future of the batch has completed and its result is inserted.
BatchFinished == created = Len(batch) /\ ready = <<>> /\ inflight = {}

\* A variant of CollectBatch whose stream creates the futures of the whole
\* batch at once.
CollectBatchUnbounded ==
    /\ pc = "drain"
    /\ BatchFinished
    /\ workQueue # <<>>
    /\ LET n == Min(batch_size, Len(workQueue))
       IN  /\ batch' = SubSeq(workQueue, 1, n)
           /\ workQueue' = SubSeq(workQueue, n + 1, Len(workQueue))
           /\ created' = n
           /\ ready' = [i \in 1..n |-> i]
    /\ UNCHANGED <<reg, packages, isDev, concurrency, pc, rootDeps, visited, cache,
                   dedup, inflight, dependencies, calls, run, prev>>
    /\ UNCHANGED <<installVars, fetches>>
    /\ UNCHANGED extraVars
    /\ UNCHANGED histVars

\* One turn of the while loop: up to batch_size items are popped into a
\* batch, and the first stream.next() creates the first futures.
CollectBatch ==
    /\ pc = "drain"
    /\ BatchFinished
    /\ workQueue # <<>>
    /\ LET n == Min(batch_size, Len(workQueue))
       IN  /\ batch' = SubSeq(workQueue, 1, n)
           /\ workQueue' = SubSeq(workQueue, n + 1, Len(workQueue))
           /\ created' = Min(concurrency, n)
           /\ ready' = [i \in 1..Min(concurrency, n) |-> i]
    /\ UNCHANGED <<reg, packages, isDev, concurrency, pc, rootDeps, visited, cache,
                   dedup, inflight, dependencies, calls, run, prev>>
    /\ UNCHANGED <<installVars, fetches>>
    /\ UNCHANGED extraVars
    /\ UNCHANGED histVars

\* A future completed: the polled future leaves the ready list, and the next
\* stream.next() creates the future of the next batch item, if there is one.
Yielded ==
    IF created < Len(batch)
    THEN /\ created' = created + 1
         /\ ready' = Append(Tail(ready), created + 1)
    ELSE /\ created' = created
         /\ ready' = Tail(ready)

\* A variant of StartTask whose resolve_package looks neither into the
\* cache nor into the visited set.
StartTaskAlwaysFetch ==
    /\ pc = "drain"
    /\ ready # <<>>
    /\ Head(ready) \notin inflight
    /\ visited' = visited \cup {Key(batch[Head(ready)][1], batch[Head(ready)][2])}
    /\ inflight' = inflight \cup {Head(ready)}
    /\ fetches' = fetches \cup {batch[Head(ready)][1]}
    /\ ready' = Tail(ready)
    /\ UNCHANGED <<workQueue, dependencies, calls, created>>
    /\ UNCHANGED <<reg, packages, isDev, concurrency, pc, rootDeps, cache, dedup,
                   batch, run, prev>>
    /\ UNCHANGED installVars
    /\ UNCHANGED extraVars
    /\ UNCHANGED histVars

\* The first poll of a future: resolve_package runs up to its return or up
\* to the await of get_package_info.
StartTask ==
    /\ pc = "drain"
    /\ ready # <<>>
    /\ Head(ready) \notin inflight
    /\ LET i == Head(ready)
           name == batch[i][1]
           range == batch[i][2]
           key == Key(name, range)
           found == find_compatible_version(dedup, name, range)
       IN  IF key \in DOMAIN cache
           THEN /\ TaskOk(i, cache[key], visited, TRUE)
                /\ Yielded
                /\ UNCHANGED <<inflight, fetches>>
           ELSE IF key \in visited
           THEN /\ TaskOk(i, DummyPackage(name), visited, TRUE)
                /\ Yielded
                /\ UNCHANGED <<inflight, fetches>>
           ELSE IF found.some /\ Key(name, Bare(found.v)) \in DOMAIN cache
           THEN /\ TaskOk(i, cache[Key(name, Bare(found.v))],
                          visited \cup {key}, FALSE)
                /\ Yielded
                /\ UNCHANGED <<inflight, fetches>>
           ELSE /\ visited' = visited \cup {key}
                /\ inflight' = inflight \cup {i}
                /\ fetches' = fetches \cup {name}
                /\ ready' = Tail(ready)
                /\ UNCHANGED <<workQueue, dependencies, calls, created>>
    /\ UNCHANGED <<reg, packages, isDev, concurrency, pc, rootDeps, cache, dedup,
                   batch, run, prev>>
    /\ UNCHANGED installVars
    /\ UNCHANGED extraVars
    /\ UNCHANGED histVars

\* The registry's response to the get_package_info of batch item i arrives
\* (or the request fails): the future is ready to be polled again.
FetchArrives(i) ==
    /\ pc = "drain"
    /\ i \in inflight
    /\ i \notin Elements(ready)
    /\ ready' = Append(ready, i)
    /\ UNCHANGED <<reg, packages, isDev, concurrency, pc, rootDeps, visited, cache,
                   dedup, workQueue, batch, created, inflight, dependencies, calls,
                   run, prev>>
    /\ UNCHANGED <<installVars, fetches>>
    /\ UNCHANGED extraVars
    /\ UNCHANGED histVars

\* The poll of a future whose get_package_info returned: the future runs to
\* its end.  The best version is selected, the package registered and
\* cached, and the task's Ok or Err arm runs.
FetchComplete ==
    /\ pc = "drain"
    /\ ready # <<>>
    /\ Head(ready) \in inflight
    /\ inflight' = inflight \ {Head(ready)}
    /\ Yielded
    /\ LET i == Head(ready)
           name == batch[i][1]
           range == batch[i][2]
           record == reg[name]
           best == BestVersion(record, range)
           pkg == Package(name, best.v, record.versions[best.v])
       IN  IF record.exists /\ best.some
           THEN /\ dedup' = register_package(dedup, name, best.v, range)
                /\ cache' = Insert(cache, Key(name, range), pkg)
                /\ TaskOk(i, pkg, visited, FALSE)
           ELSE /\ TaskErr(i)
                /\ UNCHANGED <<dedup, cache>>
    /\ UNCHANGED <<reg, packages, isDev, concurrency, pc, rootDeps, batch, run, prev>>
    /\ UNCHANGED <<installVars, fetches>>
    /\ UNCHANGED extraVars
    /\ UNCHANGED histVars

\* The queue is empty: resolve_dependencies_internal returns the tree and
\* resolve_dependencies runs deduplicate_tree on it.
ResolveFinish ==
    /\ pc = "drain"
    /\ BatchFinished
    /\ workQueue = <<>>
    /\ \E nameOrder \in Orders(MultiNames(dependencies)) :
          \E sortedOf \in SortedChoices(dependencies) :
             dependencies' =
                 deduplicate_tree(dependencies, dependencies, nameOrder, sortedOf)
    /\ pc' = "resolved"
    /\ UNCHANGED <<reg, packages, isDev, concurrency, rootDeps, visited, cache, dedup,
                   workQueue, batch, created, ready, inflight, calls, run, prev>>
    /\ UNCHANGED <<installVars, fetches>>
    /\ UNCHANGED extraVars
    /\ UNCHANGED histVars

\* The command is run a second time on the same registry snapshot with the
\* same packages: a new process builds a new registry client and resolver.
RunAgain ==
    /\ pc = "resolved"
    /\ run = 1
    /\ run' = run + 1
    /\ prev' = [nodes |-> Nodes(dependencies), dev |-> isDev]
    /\ isDev' \in BOOLEAN
    /\ concurrency' \in {with_concurrency(c) : c \in 0..MaxConcurrency}
    /\ pc' = "start"
    /\ rootDeps' = <<>>
    /\ visited' = {}
    /\ cache' = <<>>
    /\ dedup' = [n \in Names |-> <<>>]
    /\ workQueue' = <<>>
    /\ batch' = <<>>
    /\ created' = 0
    /\ ready' = <<>>
    /\ inflight' = {}
    /\ dependencies' = <<>>
    /\ calls' = {}
    /\ fetches' = {}
    /\ UNCHANGED <<reg, packages>>
    /\ UNCHANGED installVars
    /\ UNCHANGED extraVars
    /\ UNCHANGED histVars

\* The steps of one process.
ResolveNext ==
    \/ ResolveAndInstallBegin
    \/ CollectBatch
    \/ StartTask
    \/ \E i \in 1..Len(batch) : FetchArrives(i)
    \/ FetchComplete
    \/ ResolveFinish

Next ==
    \/ ResolveNext
    \/ RunAgain

Spec == Init /\ [][Next]_vars

\* One process under the scheduling of the runtime: a future that is ready
\* is polled, a registry request is answered or times out, and the loop of
\* resolve_dependencies_internal goes on.
FairSpec == Init /\ [][ResolveNext]_vars /\ WF_vars(ResolveNext)

\* ------------------------------------------------- install and replay
\* The rest of the command: the frozen branch of resolve_and_install, the
\* installation of the resolved tree with its lockfile, and the update of
\* the manifest by execute.

\* The returned packages of install_from_lockfile: one per entry, named by
\* the first piece of the entry's key.
EntryName(key) == PieceString(Split(key)[1])

EntryPackage(lock, key) ==
    Package(EntryName(key), lock.packages[key].version,
            lock.packages[key].dependencies)

\* resolve_and_install with frozen and a lockfile that loads: node_modules
\* is created, the packages to return are built and one task per entry is
\* spawned.
FrozenBegin ==
    /\ pc = "start"
    /\ frozen
    /\ load_lockfile(lockfile).ok /\ load_lockfile(lockfile).some
    /\ LET lock == load_lockfile(lockfile).lock
       IN  /\ nodeModules' = IF nodeModules.exists THEN nodeModules
                             ELSE CreateDirAll(nodeModules, "")
           /\ installed' = {EntryPackage(lock, k) : k \in DOMAIN lock.packages}
           /\ handles' = [k \in DOMAIN lock.packages |-> "spawned"]
    /\ pc' = "replay"
    /\ UNCHANGED <<reg, packages, isDev, concurrency, rootDeps, visited, cache, dedup,
                   workQueue, batch, created, ready, inflight, dependencies, calls,
                   run, prev>>
    /\ UNCHANGED <<frozen, noSave, manifest, lockfile, fetches, downloads, start>>
    /\ UNCHANGED extraVars
    /\ UNCHANGED histVars

\* A spawned task tests whether the directory of its package exists.
HandleCheck(k) ==
    /\ pc = "replay"
    /\ k \in DOMAIN handles
    /\ handles[k] = "spawned"
    /\ handles' = [handles EXCEPT ![k] =
            IF DirExists(nodeModules, EntryName(k)) THEN "done" ELSE "creating"]
    /\ UNCHANGED <<reg, packages, isDev, concurrency, pc, rootDeps, visited, cache,
                   dedup, workQueue, batch, created, ready, inflight, dependencies,
                   calls, run, prev>>
    /\ UNCHANGED <<frozen, noSave, manifest, lockfile, nodeModules, installed,
                   fetches, downloads, start>>
    /\ UNCHANGED extraVars
    /\ UNCHANGED histVars

\* A task that found no directory creates it and downloads the tarball of
\* its entry.
HandleCreate(k) ==
    /\ pc = "replay"
    /\ k \in DOMAIN handles
    /\ handles[k] = "creating"
    /\ nodeModules' = IF EntryName(k) \in fsFails THEN nodeModules
                       ELSE CreateDirAll(nodeModules, EntryName(k))
    /\ downloads' = downloads \cup {load_lockfile(lockfile).lock.packages[k].resolved}
    /\ handles' = [handles EXCEPT ![k] = "done"]
    /\ UNCHANGED <<reg, packages, isDev, concurrency, pc, rootDeps, visited, cache,
                   dedup, workQueue, batch, created, ready, inflight, dependencies,
                   calls, run, prev>>
    /\ UNCHANGED <<frozen, noSave, manifest, lockfile, installed, fetches, start>>
    /\ UNCHANGED extraVars
    /\ UNCHANGED histVars

\* join_all returned: resolve_and_install returns the packages.
FrozenFinish ==
    /\ pc = "replay"
    /\ \A k \in DOMAIN handles : handles[k] = "done"
    /\ pc' = "installed"
    /\ UNCHANGED <<reg, packages, isDev, concurrency, rootDeps, visited, cache, dedup,
                   workQueue, batch, created, ready, inflight, dependencies, calls,
                   run, prev>>
    /\ UNCHANGED <<installVars, fetches>>
    /\ UNCHANGED extraVars
    /\ UNCHANGED histVars

\* resolve_and_install with frozen and a lockfile that does not load: the
\* error is returned, and execute returns it.
FrozenFail ==
    /\ pc = "start"
    /\ frozen
    /\ ~load_lockfile(lockfile).ok
    /\ pc' = "failed"
    /\ UNCHANGED <<reg, packages, isDev, concurrency, rootDeps, visited, cache, dedup,
                   workQueue, batch, created, ready, inflight, dependencies, calls,
                   run, prev>>
    /\ UNCHANGED <<installVars, fetches>>
    /\ UNCHANGED extraVars
    /\ UNCHANGED histVars

\* resolve_and_install after the resolve: install_tree, generate_lockfile
\* and save_lockfile, and the nodes of the tree are returned.
InstallAndLock ==
    /\ pc = "resolved"
    /\ \E order \in Orders(DOMAIN dependencies) :
          LET r == InstallSteps(CreateDirAll(nodeModules, ""), pkgJson,
                                dependencies, order, fsFails)
          IN  IF r.ok
              THEN /\ nodeModules' = install_tree(nodeModules, dependencies)
                   /\ pkgJson' = r.files
                   /\ lastInstalled' = LastOfName(<<>>, dependencies, order)
                   /\ lockfile' =
                         save_lockfile(generate_lockfile(dependencies, order))
                   /\ installed' = {dependencies[k] : k \in DOMAIN dependencies}
                   /\ pc' = "installed"
              ELSE /\ nodeModules' = r.nm
                   /\ pkgJson' = r.files
                   /\ pc' = "failed"
                   /\ UNCHANGED <<lockfile, installed, lastInstalled>>
    /\ UNCHANGED <<fsFails, http, devCall, passIn, lookup>>
    /\ UNCHANGED <<reg, packages, isDev, concurrency, rootDeps, visited, cache, dedup,
                   workQueue, batch, created, ready, inflight, dependencies, calls,
                   run, prev>>
    /\ UNCHANGED <<frozen, noSave, manifest, handles, fetches, downloads, start>>

\* A variant of ShouldSave that ignores no_save.
ShouldSaveAlways == manifest.exists

\* `!opts.no_save && package_json_path.exists()`
ShouldSave == ~noSave /\ manifest.exists

\* execute after resolve_and_install returned Ok: the manifest is updated
\* with the returned packages unless no_save is set or there is no manifest.
SavePackageJson ==
    /\ pc = "installed"
    /\ IF ShouldSave
       THEN \E new \in SavedMaps(installed) :
               manifest' = update_package_json(manifest, new, isDev)
       ELSE UNCHANGED manifest
    /\ pc' = "done"
    /\ UNCHANGED <<reg, packages, isDev, concurrency, rootDeps, visited, cache, dedup,
                   workQueue, batch, created, ready, inflight, dependencies, calls,
                   run, prev>>
    /\ UNCHANGED <<frozen, noSave, lockfile, nodeModules, handles, installed,
                   fetches, downloads, start>>
    /\ UNCHANGED extraVars
    /\ UNCHANGED histVars

\* The command is run again with --frozen, after node_modules was removed
\* or as it is: a new process with a new resolver.
RunFrozen ==
    /\ pc = "done"
    /\ run = 1
    /\ ~frozen
    /\ run' = run + 1
    /\ frozen' = TRUE
    /\ nodeModules' \in {nodeModules, NoNodeModules}
    /\ start' = [manifest |-> manifest, lockfile |-> lockfile,
                 nodeModules |-> nodeModules']
    /\ pc' = "start"
    /\ rootDeps' = <<>>
    /\ visited' = {}
    /\ cache' = <<>>
    /\ dedup' = [n \in Names |-> <<>>]
    /\ workQueue' = <<>>
    /\ batch' = <<>>
    /\ created' = 0
    /\ ready' = <<>>
    /\ inflight' = {}
    /\ dependencies' = <<>>
    /\ calls' = {}
    /\ handles' = <<>>
    /\ installed' = {}
    /\ fetches' = {}
    /\ downloads' = {}
    /\ pkgJson' = [n \in DOMAIN pkgJson \cap nodeModules'.dirs |-> pkgJson[n]]
    /\ UNCHANGED <<reg, packages, isDev, concurrency, prev, noSave, manifest,
                   lockfile, fsFails, http, devCall, passIn, lookup>>
    /\ lastInstalled' = <<>>

\* Resolved trees from which a lockfile was written before the command runs:
\* the tree of a transitive resolution, a tree with a scoped package, and a
\* tree that keeps two versions of one name.
TreeTransitive ==
    (Key("a", Caret(1, 0, 0)) :> Package("a", V(1, 2, 0), Dep1("c", Caret(2, 0, 0))))
    @@ (Key("c", Caret(2, 0, 0)) :> Package("c", V(2, 3, 1), NoDeps))

TreeScoped ==
    (Key("a", Caret(1, 0, 0)) :> Package("a", V(1, 0, 0), Dep1(Scoped, Caret(1, 0, 0))))
    @@ (Key(Scoped, Caret(1, 0, 0)) :> Package(Scoped, V(1, 0, 0), NoDeps))

TreeTwoVersions ==
    (Key("lib", Caret(1, 0, 0)) :> Package("lib", V(1, 5, 0), NoDeps))
    @@ (Key("lib", Caret(2, 0, 0)) :> Package("lib", V(2, 0, 0), NoDeps))

SampleTrees == {TreeTransitive, TreeScoped, TreeTwoVersions}

\* The lockfile written from a tree.
Written(tree) ==
    save_lockfile(generate_lockfile(tree, CHOOSE o \in Orders(DOMAIN tree) : TRUE))

\* What rjs-lock.json can be when the command starts.
LockFiles == {NoFile, Garbage} \cup {Written(t) : t \in SampleTrees}

\* The command `install <packages>` with its options, in a project with or
\* without a manifest.  Without --frozen the project is new; with --frozen
\* it may have a lockfile and installed packages.
InitInstall ==
    /\ reg \in Registries
    /\ packages \in RequestMaps
    /\ isDev \in BOOLEAN
    /\ concurrency \in {with_concurrency(c) : c \in 0..MaxConcurrency}
    /\ run = 1
    /\ prev = [nodes |-> {}, dev |-> FALSE]
    /\ frozen \in BOOLEAN
    /\ noSave \in BOOLEAN
    /\ manifest \in {NoManifest, BareManifest, InitManifest}
    /\ lockfile \in (IF frozen THEN LockFiles ELSE {NoFile})
    /\ nodeModules \in (IF frozen
                        THEN {NoNodeModules, [exists |-> TRUE, dirs |-> {"a"}]}
                        ELSE {NoNodeModules})
    /\ start = [manifest |-> manifest, lockfile |-> lockfile,
                nodeModules |-> nodeModules]
    /\ Fresh
    /\ Plain
    /\ NoHistory

InstallNext ==
    \/ ResolveNext
    \/ FrozenBegin
    \/ \E k \in DOMAIN handles : HandleCheck(k)
    \/ \E k \in DOMAIN handles : HandleCreate(k)
    \/ FrozenFinish
    \/ FrozenFail
    \/ InstallAndLock
    \/ SavePackageJson
    \/ RunFrozen

InstallSpec == InitInstall /\ [][InstallNext]_vars

\* ------------------------------------------------ successive installs
\* The command `install <packages>` run twice in one project, without
\* --frozen: the second run finds the node_modules, the manifest and the
\* lockfile the first one left.

\* The maps of one top-level request.
SingleRequestMaps == {m \in RequestMaps : Cardinality(DOMAIN m) = 1}

\* The command is run again with one package, with or without --save-dev: a
\* new process with a new resolver in the same project directory.
InstallAgain ==
    /\ pc = "done"
    /\ run = 1
    /\ ~frozen
    /\ run' = run + 1
    /\ packages' \in SingleRequestMaps
    /\ isDev' \in BOOLEAN
    /\ start' = [manifest |-> manifest, lockfile |-> lockfile,
                 nodeModules |-> nodeModules]
    /\ pc' = "start"
    /\ rootDeps' = <<>>
    /\ visited' = {}
    /\ cache' = <<>>
    /\ dedup' = [n \in Names |-> <<>>]
    /\ workQueue' = <<>>
    /\ batch' = <<>>
    /\ created' = 0
    /\ ready' = <<>>
    /\ inflight' = {}
    /\ dependencies' = <<>>
    /\ calls' = {}
    /\ handles' = <<>>
    /\ installed' = {}
    /\ fetches' = {}
    /\ downloads' = {}
    /\ UNCHANGED <<reg, concurrency, prev, frozen, noSave, manifest, lockfile,
                   nodeModules>>
    /\ UNCHANGED extraVars
    /\ lastInstalled' = <<>>
    /\ UNCHANGED <<passIn, lookup>>

\* The first run in a new project whose manifest has or lacks the
\* dependency fields, where the directory of lib may be impossible to
\* create.
InitSeq ==
    /\ reg \in {RegUnmatched, RegTag}
    /\ packages \in RequestMaps
    /\ isDev = FALSE
    /\ concurrency \in {with_concurrency(c) : c \in 0..MaxConcurrency}
    /\ run = 1
    /\ prev = [nodes |-> {}, dev |-> FALSE]
    /\ frozen = FALSE
    /\ noSave = FALSE
    /\ manifest \in {BareManifest, InitManifest}
    /\ lockfile = NoFile
    /\ nodeModules = NoNodeModules
    /\ start = [manifest |-> manifest, lockfile |-> lockfile,
                nodeModules |-> nodeModules]
    /\ Fresh
    /\ fsFails \in {{}, {"lib"}}
    /\ pkgJson = <<>>
    /\ http = HttpIdle
    /\ devCall = "none"
    /\ NoHistory

SeqNext ==
    \/ ResolveNext
    \/ InstallAndLock
    \/ SavePackageJson
    \/ InstallAgain

SeqSpec == InitSeq /\ [][SeqNext]_vars

\* ------------------------------------------------------ registry client
\* The requests of one NpmRegistry and its clones, whoever makes them: the
\* tasks of a batch, or the tasks the frozen replay spawns for the entries
\* of a lockfile.

\* `let _permit = self.rate_limiter.acquire().await?`
AcquirePermit(h) == [h EXCEPT !.permits = @ - 1, !.idle = @ - 1]

\* _permit goes out of scope.
DropPermit(h) == [h EXCEPT !.permits = @ + 1]

RegistryFrame ==
    UNCHANGED <<reg, packages, isDev, concurrency, pc, rootDeps, visited, cache,
                dedup, workQueue, batch, created, ready, inflight, dependencies,
                calls, run, prev, installVars, fetches, fsFails, pkgJson, devCall,
                histVars>>

\* get_package_info gets a permit and sends its request.
GetPackageInfoSend ==
    /\ http.idle > 0
    /\ http.permits > 0
    /\ http' = [AcquirePermit(http) EXCEPT !.metadata = @ + 1]
    /\ RegistryFrame

\* get_package_info returns the package info.
GetPackageInfoReturns ==
    /\ http.metadata > 0
    /\ http' = [DropPermit(http) EXCEPT !.metadata = @ - 1]
    /\ RegistryFrame

\* A variant of GetPackageInfoFails that keeps the permit.
GetPackageInfoFailsHolding ==
    /\ http.metadata > 0
    /\ http' = [http EXCEPT !.metadata = @ - 1, !.failed = TRUE]
    /\ RegistryFrame

\* get_package_info returns an error: the request could not be sent, the
\* status is no success, or the body is no package document.
GetPackageInfoFails ==
    /\ http.metadata > 0
    /\ http' = [DropPermit(http) EXCEPT !.metadata = @ - 1, !.failed = TRUE]
    /\ RegistryFrame

\* download_package gets a permit and sends its request.
DownloadPackageSend ==
    /\ http.idle > 0
    /\ http.permits > 0
    /\ http' = [AcquirePermit(http) EXCEPT !.tarball = @ + 1]
    /\ RegistryFrame

\* download_package returns after the tarball was written.
DownloadPackageReturns ==
    /\ http.tarball > 0
    /\ http' = [DropPermit(http) EXCEPT !.tarball = @ - 1]
    /\ RegistryFrame

\* download_package returns an error: of the request, of the status, or of
\* the file it writes.
DownloadPackageFails ==
    /\ http.tarball > 0
    /\ http' = [DropPermit(http) EXCEPT !.tarball = @ - 1, !.failed = TRUE]
    /\ RegistryFrame

\* A new client on which MaxRequests calls will be made.
InitRegistry ==
    /\ reg = RegTransitive
    /\ packages = [n \in {"a"} |-> Caret(1, 0, 0)]
    /\ isDev = FALSE
    /\ concurrency = with_concurrency(MaxConcurrency)
    /\ run = 1
    /\ prev = [nodes |-> {}, dev |-> FALSE]
    /\ frozen = FALSE
    /\ noSave = FALSE
    /\ manifest = InitManifest
    /\ lockfile = NoFile
    /\ nodeModules = NoNodeModules
    /\ start = [manifest |-> manifest, lockfile |-> lockfile,
                nodeModules |-> nodeModules]
    /\ Fresh
    /\ fsFails = {}
    /\ pkgJson = <<>>
    /\ devCall = "none"
    /\ http = [HttpIdle EXCEPT !.idle = MaxRequests]
    /\ NoHistory

RegistryNext ==
    \/ GetPackageInfoSend
    \/ GetPackageInfoReturns
    \/ GetPackageInfoFails
    \/ DownloadPackageSend
    \/ DownloadPackageReturns
    \/ DownloadPackageFails

RegistrySpec == InitRegistry /\ [][RegistryNext]_vars

\* ------------------------------------------------ install from manifest
\* `install` without packages: install_from_package_json joins two calls of
\* resolve_and_install on one resolver, the first with the dependencies of
\* the manifest and the second, with is_dev, with its devDependencies.  The
\* first call is the process of the resolve actions; `devCall` is the
\* position of the second.

\* The devDependencies of the manifest the command reads.
DevRequests == [n \in {"c"} |-> Caret(1, 0, 0)]

\* The second call up to the return of resolve_dependencies: its requests
\* are put into root_pkg.dev_dependencies, the queue is seeded from
\* root_pkg.dependencies, so it resolves the empty tree.
DevCallResolve ==
    /\ devCall = "start"
    /\ devCall' = "resolved"
    /\ UNCHANGED <<reg, packages, isDev, concurrency, pc, rootDeps, visited, cache,
                   dedup, workQueue, batch, created, ready, inflight, dependencies,
                   calls, run, prev, installVars, fetches, fsFails, pkgJson, http,
                   histVars>>

\* The second call installs its tree and writes the lockfile generated from
\* it.
DevCallInstallAndLock ==
    /\ devCall = "resolved"
    /\ nodeModules' = install_tree(nodeModules, <<>>)
    /\ lockfile' = save_lockfile(generate_lockfile(<<>>, <<>>))
    /\ devCall' = "done"
    /\ UNCHANGED <<reg, packages, isDev, concurrency, pc, rootDeps, visited, cache,
                   dedup, workQueue, batch, created, ready, inflight, dependencies,
                   calls, run, prev, frozen, noSave, manifest, handles, installed,
                   downloads, start, fetches, fsFails, pkgJson, http, histVars>>

\* The command in a project whose manifest lists the requests in `packages`
\* as dependencies and DevRequests as devDependencies.
InitFromManifest ==
    /\ reg \in Registries
    /\ packages \in RequestMaps
    /\ isDev = FALSE
    /\ concurrency \in {with_concurrency(c) : c \in 0..MaxConcurrency}
    /\ run = 1
    /\ prev = [nodes |-> {}, dev |-> FALSE]
    /\ frozen = FALSE
    /\ noSave = FALSE
    /\ manifest = Manifest(TRUE, Field(TRUE, packages), Field(TRUE, DevRequests))
    /\ lockfile = NoFile
    /\ nodeModules = NoNodeModules
    /\ start = [manifest |-> manifest, lockfile |-> lockfile,
                nodeModules |-> nodeModules]
    /\ Fresh
    /\ fsFails = {}
    /\ pkgJson = <<>>
    /\ http = HttpIdle
    /\ devCall = "start"
    /\ NoHistory

FromManifestNext ==
    \/ ResolveNext
    \/ InstallAndLock
    \/ DevCallResolve
    \/ DevCallInstallAndLock

FromManifestSpec == InitFromManifest /\ [][FromManifestNext]_vars

\* ------------------------------------------------- the post-pass alone
\* deduplicate_tree is called on trees with up to two versions of a and
\* three nodes of lib, two of them at the same version, and then once more
\* on its own result.

\* The dependency maps a node of the given name can have in these trees.
TreeDeps(name) ==
    CASE name = "a" -> {NoDeps, Dep1("lib", Caret(1, 0, 0)), Dep1("lib", Caret(2, 0, 0))}
      [] name = "lib" -> {NoDeps, Dep1("a", Caret(1, 0, 0)), Dep1("a", Caret(2, 0, 0))}
      [] OTHER -> {NoDeps, Dep1("lib", Caret(1, 0, 0)), Dep1("lib", Caret(2, 0, 0)),
                   Dep1("a", Caret(1, 0, 0)), Dep1("a", Caret(2, 0, 0))}

\* The version of the node under each key these trees can have.
TreeVersions ==
    (Key("a", Caret(1, 0, 0)) :> V(1, 0, 0))
    @@ (Key("a", Caret(2, 0, 0)) :> V(2, 0, 0))
    @@ (Key("lib", Caret(1, 0, 0)) :> V(1, 0, 0))
    @@ (Key("lib", Caret(2, 0, 0)) :> V(2, 0, 0))
    @@ (Key("lib", Star) :> V(2, 0, 0))
    @@ (Key("c", Caret(1, 0, 0)) :> V(1, 0, 0))

\* The trees: any of the keys, each with its node.  A node is built from
\* the registry's record of its version, so two nodes of one name and
\* version carry the same dependency map.
InputTrees ==
    UNION {{[k \in S |-> Package(k[1], TreeVersions[k], deps[k])] :
               deps \in {f \in [S -> TreeDeps("c")] :
                            /\ \A k \in S : f[k] \in TreeDeps(k[1])
                            /\ \A j, k \in S :
                                  (j[1] = k[1] /\ TreeVersions[j] = TreeVersions[k])
                                      => f[j] = f[k]}}
           : S \in SUBSET DOMAIN TreeVersions}

\* deduplicate_tree on the tree.
Deduplicate ==
    /\ pc = "tree"
    /\ \E nameOrder \in Orders(MultiNames(dependencies)) :
          \E sortedOf \in SortedChoices(dependencies) :
             dependencies' =
                 deduplicate_tree(dependencies, dependencies, nameOrder, sortedOf)
    /\ passIn' = dependencies
    /\ pc' = "deduplicated"
    /\ UNCHANGED <<reg, packages, isDev, concurrency, rootDeps, visited, cache, dedup,
                   workQueue, batch, created, ready, inflight, calls, run, prev>>
    /\ UNCHANGED <<installVars, fetches>>
    /\ UNCHANGED extraVars
    /\ UNCHANGED <<lastInstalled, lookup>>

\* deduplicate_tree on the tree it left.
DeduplicateAgain ==
    /\ pc = "deduplicated"
    /\ \E nameOrder \in Orders(MultiNames(dependencies)) :
          \E sortedOf \in SortedChoices(dependencies) :
             dependencies' =
                 deduplicate_tree(dependencies, dependencies, nameOrder, sortedOf)
    /\ pc' = "again"
    /\ UNCHANGED <<reg, packages, isDev, concurrency, rootDeps, visited, cache, dedup,
                   workQueue, batch, created, ready, inflight, calls, run, prev>>
    /\ UNCHANGED <<installVars, fetches>>
    /\ UNCHANGED extraVars
    /\ UNCHANGED histVars

\* A resolver holding a tree, nothing else going on.
InitDedup ==
    /\ reg = RegTransitive
    /\ packages = [n \in {"a"} |-> Caret(1, 0, 0)]
    /\ isDev = FALSE
    /\ concurrency = with_concurrency(MaxConcurrency)
    /\ run = 1
    /\ prev = [nodes |-> {}, dev |-> FALSE]
    /\ frozen = FALSE
    /\ noSave = FALSE
    /\ manifest = InitManifest
    /\ lockfile = NoFile
    /\ nodeModules = NoNodeModules
    /\ start = [manifest |-> manifest, lockfile |-> lockfile,
                nodeModules |-> nodeModules]
    /\ pc = "tree"
    /\ rootDeps = <<>>
    /\ visited = {}
    /\ cache = <<>>
    /\ dedup = [n \in Names |-> <<>>]
    /\ workQueue = <<>>
    /\ batch = <<>>
    /\ created = 0
    /\ ready = <<>>
    /\ inflight = {}
    /\ dependencies \in InputTrees
    /\ calls = {}
    /\ handles = <<>>
    /\ installed = {}
    /\ fetches = {}
    /\ downloads = {}
    /\ Plain
    /\ NoHistory

DedupNext ==
    \/ Deduplicate
    \/ DeduplicateAgain

DedupSpec == InitDedup /\ [][DedupNext]_vars

\* ------------------------------------------------- the index alone
\* DependencyDeduplication by itself: register_package and
\* find_compatible_version called in any sequence, on two names.

IndexNames == {"a", "lib"}

\* The versions registered: 1.0.0, 1.3.0, 2.0.0, ...
IndexVersions == {V(1 + (i \div 2), 3 * (i % 2), 0) : i \in 0..(MaxVersions - 1)}

\* The range-specs a version is registered with: lib is requested under
\* two range-specs, a under one.
IndexSpecs(name) == IF name = "lib" THEN {Caret(1, 0, 0), Star} ELSE {Caret(1, 0, 0)}

\* The requirements looked up: ranges, the universal range and a dist-tag.
IndexRanges == {Caret(1, 0, 0), Caret(2, 0, 0), Star, Latest}

\* register_package(name, version, spec)
Register ==
    /\ pc = "index"
    /\ \E name \in IndexNames, version \in IndexVersions :
          \E spec \in IndexSpecs(name) :
             dedup' = register_package(dedup, name, version, spec)
    /\ UNCHANGED <<reg, packages, isDev, concurrency, pc, rootDeps, visited, cache,
                   workQueue, batch, created, ready, inflight, dependencies, calls,
                   run, prev>>
    /\ UNCHANGED <<installVars, fetches>>
    /\ UNCHANGED extraVars
    /\ UNCHANGED histVars

\* find_compatible_version(name, range): the index is read and the result
\* returned.
Find ==
    /\ pc = "index"
    /\ \E name \in IndexNames, range \in IndexRanges :
          lookup' = [name |-> name, range |-> range,
                     result |-> find_compatible_version(dedup, name, range)]
    /\ UNCHANGED <<reg, packages, isDev, concurrency, pc, rootDeps, visited, cache,
                   dedup, workQueue, batch, created, ready, inflight, dependencies,
                   calls, run, prev>>
    /\ UNCHANGED <<installVars, fetches>>
    /\ UNCHANGED extraVars
    /\ UNCHANGED <<lastInstalled, passIn>>

\* DependencyDeduplication::new in a new resolver: the index is empty.
InitIndex ==
    /\ reg = RegTransitive
    /\ packages = [n \in {"a"} |-> Caret(1, 0, 0)]
    /\ isDev = FALSE
    /\ concurrency = with_concurrency(MaxConcurrency)
    /\ run = 1
    /\ prev = [nodes |-> {}, dev |-> FALSE]
    /\ frozen = FALSE
    /\ noSave = FALSE
    /\ manifest = InitManifest
    /\ lockfile = NoFile
    /\ nodeModules = NoNodeModules
    /\ start = [manifest |-> manifest, lockfile |-> lockfile,
                nodeModules |-> nodeModules]
    /\ pc = "index"
    /\ rootDeps = <<>>
    /\ visited = {}
    /\ cache = <<>>
    /\ dedup = [n \in Names |-> <<>>]
    /\ workQueue = <<>>
    /\ batch = <<>>
    /\ created = 0
    /\ ready = <<>>
    /\ inflight = {}
    /\ dependencies = <<>>
    /\ calls = {}
    /\ handles = <<>>
    /\ installed = {}
    /\ fetches = {}
    /\ downloads = {}
    /\ Plain
    /\ NoHistory

IndexNext ==
    \/ Register
    \/ Find

IndexSpec == InitIndex /\ [][IndexNext]_vars

\* ----------------------------------------------------------------- claims

\* A request for `range` on a package with the given record is satisfied by
\* version v: the range is a semver range that matches v, or it is the
\* dist-tag and the record's dist-tags map it to v.
Satisfies(record, range, v) ==
    IF VersionReqParse(range).ok
    THEN ReqMatches(VersionReqParse(range), v)
    ELSE record.exists /\ record.latest = v

\* The registry has the requested name at a version satisfying the request.
Resolvable(req) ==
    /\ reg[req[1]].exists
    /\ \E v \in DOMAIN reg[req[1]].versions : Satisfies(reg[req[1]], req[2], v)

Resolved == pc = "resolved"

\* C1: every node of the returned resolved set has a version that is a
\* version key of the registry record of its name, and that version
\* satisfies the range of the request that produced the node (stated for
\* requests carrying a semver range; dist-tag requests are C4's).
C1_NodesComeFromRegistry ==
    Resolved =>
        \A k \in DOMAIN dependencies :
            /\ reg[dependencies[k].name].exists
            /\ dependencies[k].version \in DOMAIN reg[dependencies[k].name].versions
            /\ VersionReqParse(k[2]).ok =>
                   ReqMatches(VersionReqParse(k[2]), dependencies[k].version)

\* C2: when every request of the resolve is resolvable, the output is
\* closed: every dependency entry (d, r) of every node is satisfied by some
\* node named d.
C2_OutputClosed ==
    (Resolved /\ \A c \in calls : Resolvable(c.req)) =>
        \A k \in DOMAIN dependencies :
            \A d \in DOMAIN dependencies[k].dependencies :
                \E m \in DOMAIN dependencies :
                    /\ dependencies[m].name = d
                    /\ Satisfies(reg[d], dependencies[k].dependencies[d],
                                 dependencies[m].version)

\* C3: with a depending on lib ^1.0.0, c on lib ^1.2.0 and lib at 1.0.0 and
\* 1.3.0, resolving a and c yields exactly one node named lib, at 1.3.0,
\* and the lib entries of a and c accept 1.3.0.
C3_SharedDependencyDeduplicated ==
    (/\ Resolved
     /\ reg = RegDedup
     /\ ~isDev
     /\ packages = ("a" :> Caret(1, 0, 0) @@ "c" :> Caret(1, 0, 0))) =>
        /\ Cardinality(GroupKeys(dependencies, "lib")) = 1
        /\ \A k \in GroupKeys(dependencies, "lib") :
               dependencies[k].version = V(1, 3, 0)
        /\ \A k \in DOMAIN dependencies :
               "lib" \in DOMAIN dependencies[k].dependencies =>
                   Satisfies(reg["lib"], dependencies[k].dependencies["lib"], V(1, 3, 0))

\* C4: a request carrying a dist-tag the record has resolves to the version
\* the tag maps to, also when the record has a higher version.
C4_DistTagSelectsTaggedVersion ==
    Resolved =>
        \A k \in DOMAIN dependencies :
            (k[2].kind = "tag" /\ reg[k[1]].exists) =>
                dependencies[k].version = reg[k[1]].latest

\* C5: a resolve_package call for a request whose key was neither cached
\* nor visited and whose range parses as a semver range R returns the
\* greatest version key of the record that R matches, and fails exactly
\* when R matches no version key.
C5_UnseenRequestGetsMaximum ==
    \A c \in calls :
        (~c.seen /\ VersionReqParse(c.req[2]).ok) =>
            LET matching == {v \in DOMAIN reg[c.req[1]].versions :
                                ReqMatches(VersionReqParse(c.req[2]), v)}
            IN  IF matching = {}
                THEN ~c.ok
                ELSE /\ c.ok
                     /\ c.version \in matching
                     /\ \A w \in matching : ~VLess(c.version, w)

\* A call for lib ^1.0.0 chose 1.3.0 among 1.0.0, 1.3.0 and the excluded
\* 2.0.0, and a call for a ^2.0.0 failed for want of a matching version.
C5_Witness ==
    /\ reg = RegTag
    /\ Call(<<"lib", Caret(1, 0, 0)>>, FALSE, TRUE, V(1, 3, 0)) \in calls
    /\ Call(<<"a", Caret(2, 0, 0)>>, FALSE, FALSE, V(0, 0, 0)) \in calls

\* C6: a resolve that has started draining its queue ends: the queue is
\* empty, no task is in flight and resolve_dependencies has returned.
C6_ResolveTerminates ==
    (pc = "drain") ~> (Resolved /\ workQueue = <<>> /\ inflight = {})

\* A resolve over the cyclic registry has returned.
C6_Witness ==
    /\ Resolved
    /\ reg = RegCycle
    /\ ~isDev
    /\ DOMAIN dependencies = {<<"a", Caret(1, 0, 0)>>, <<"c", Caret(1, 0, 0)>>}

\* C7: with a@1 depending on c ^1 and c@1 on a ^1, resolving a yields
\* exactly {a@1.0.0, c@1.0.0}.
C7_CycleResolvesBoth ==
    (/\ Resolved
     /\ reg = RegCycle
     /\ ~isDev
     /\ packages = ("a" :> Caret(1, 0, 0))) =>
        Nodes(dependencies) = {<<"a", V(1, 0, 0)>>, <<"c", V(1, 0, 0)>>}

\* C8: two resolves of the same requests over the same registry snapshot
\* produce the same nodes, whatever the interleaving and the concurrency.
C8_ResolveDeterministic ==
    (Resolved /\ run > 1 /\ prev.dev = isDev) =>
        Nodes(dependencies) = prev.nodes

\* The versions of the nodes named n.
VersionsOf(tree, n) == {tree[k].version : k \in GroupKeys(tree, n)}

\* C9: after the resolve and its post-pass, when a name keeps more than one
\* version, no node has a dependency range for that name that accepts all
\* the versions kept.
C9_NoCallerAcceptsAllKept ==
    Resolved =>
        \A n \in Names :
            Cardinality(VersionsOf(dependencies, n)) > 1 =>
                ~\E k \in DOMAIN dependencies :
                    /\ n \in DOMAIN dependencies[k].dependencies
                    /\ \A v \in VersionsOf(dependencies, n) :
                           Satisfies(reg[n], dependencies[k].dependencies[n], v)

\* Two versions of lib are kept next to a node that depends on lib.
C9_Witness ==
    /\ Resolved
    /\ Cardinality(VersionsOf(dependencies, "lib")) > 1
    /\ \E k \in DOMAIN dependencies : "lib" \in DOMAIN dependencies[k].dependencies

\* C10: whatever is-dev is, every top-level request is enqueued at seed,
\* and a resolve with is-dev set yields the nodes a resolve of the same
\* requests without it yields.
C10_DevFlagOnlyRoutes ==
    /\ pc # "start" => rootDeps = packages
    /\ (Resolved /\ run > 1 /\ prev.dev # isDev) => Nodes(dependencies) = prev.nodes


\* ------------------------------------------- claims on install and replay

\* The command returned successfully.
Done == pc = "done"

\* resolve_and_install resolved, installed the tree and wrote its lockfile.
Locked == pc \in {"installed", "done"} /\ dependencies # <<>>

\* resolve_and_install replayed the lockfile it found.
Replayed ==
    pc \in {"installed", "done"} /\ frozen /\ start.lockfile.kind = "json"

\* The key starts with `<name>@`.
KeyOfName(k, n) ==
    /\ Len(k) > Len(NameTokens(n))
    /\ SubSeq(k, 1, Len(NameTokens(n)) + 1) = NameTokens(n) \o <<At>>

\* C11: after a successful install of explicit packages without is-dev and
\* without no-save in a project that has a manifest, whatever the
\* concurrency, every requested package whose request is in the resolved
\* tree has an entry in the manifest's `dependencies`, a directory in
\* node_modules and a key `<name>@...` in rjs-lock.json.
C11_RequestedResolvedIsSaved ==
    (Done /\ ~isDev /\ ~noSave /\ manifest.exists) =>
        \A n \in DOMAIN packages :
            Key(n, packages[n]) \in DOMAIN dependencies =>
                /\ n \in DOMAIN manifest.dependencies.map
                /\ DirExists(nodeModules, n)
                /\ lockfile.kind = "json"
                /\ \E k \in DOMAIN lockfile.lock.packages : KeyOfName(k, n)

C11_Witness ==
    /\ Done /\ ~isDev /\ ~noSave /\ manifest.exists
    /\ concurrency = 2
    /\ reg = RegDedup
    /\ DOMAIN packages = {"a", "c"}
    /\ Key("a", packages["a"]) \in DOMAIN dependencies
    /\ Key("c", packages["c"]) \in DOMAIN dependencies
    /\ {"a", "c"} \subseteq DOMAIN manifest.dependencies.map
    /\ {"a", "c"} \subseteq nodeModules.dirs

\* C12: after a successful install of explicit requests that resolved them,
\* the dependency fields of the manifest gain entries only for the names
\* that were requested.
C12_OnlyRequestedNamesSaved ==
    (Done /\ ~Replayed) =>
        /\ (DOMAIN manifest.dependencies.map
                \ DOMAIN start.manifest.dependencies.map) \subseteq DOMAIN packages
        /\ (DOMAIN manifest.devDependencies.map
                \ DOMAIN start.manifest.devDependencies.map) \subseteq DOMAIN packages

\* C13: after a successful install without no-save, the manifest's
\* `dependencies` entry of a requested name whose request is in the resolved
\* tree is the range-spec that was requested.
C13_ManifestKeepsRequestedRange ==
    (Done /\ ~isDev /\ ~noSave /\ manifest.exists) =>
        \A n \in DOMAIN packages :
            Key(n, packages[n]) \in DOMAIN dependencies =>
                /\ n \in DOMAIN manifest.dependencies.map
                /\ manifest.dependencies.map[n] = packages[n]

\* C14: with no-save the manifest stays as it was when the command started,
\* and every requested package whose request is in the resolved tree has its
\* directory in node_modules once resolve_and_install returned.
C14_NoSaveKeepsManifest ==
    noSave =>
        /\ manifest = start.manifest
        /\ pc \in {"installed", "done"} =>
              \A n \in DOMAIN packages :
                 Key(n, packages[n]) \in DOMAIN dependencies =>
                     DirExists(nodeModules, n)

C14_Witness ==
    /\ Done /\ noSave /\ manifest.exists /\ ~isDev
    /\ reg = RegTransitive
    /\ "a" \in DOMAIN packages
    /\ Key("a", packages["a"]) \in DOMAIN dependencies
    /\ "a" \in nodeModules.dirs
    /\ manifest = InitManifest

\* C15: the lockfile generated from the resolved tree has as many entries
\* as the tree has nodes: no two nodes of the tree get the same lockfile
\* key.
C15_OneLockEntryPerNode ==
    Locked =>
        /\ Cardinality(DOMAIN lockfile.lock.packages)
              = Cardinality(DOMAIN dependencies)
        /\ \A j, k \in DOMAIN dependencies :
              LockKey(dependencies[j].name, dependencies[j].version)
                 = LockKey(dependencies[k].name, dependencies[k].version) => j = k

\* C16: the lockfile written from the resolved tree and loaded back has the
\* keys of the tree, and under each key the dependency map of that node.
C16_LockfileRoundTrip ==
    Locked =>
        LET loaded == load_lockfile(lockfile).lock.packages
        IN  /\ DOMAIN loaded = {KeyString(k) : k \in DOMAIN dependencies}
            /\ \A k \in DOMAIN dependencies :
                  loaded[KeyString(k)].dependencies = dependencies[k].dependencies

\* C17: when frozen is set and rjs-lock.json exists, resolve_and_install
\* never calls get_package_info.
C17_FrozenFetchesNothing ==
    (frozen /\ start.lockfile.kind # "absent") => fetches = {} /\ inflight = {}

C17_Witness ==
    /\ Done /\ frozen /\ run = 2
    /\ start.lockfile.kind = "json"
    /\ ~start.nodeModules.exists
    /\ DOMAIN packages = {"a"}
    /\ downloads # {}
    /\ "a" \in nodeModules.dirs

\* C18: after a frozen replay that started without node_modules, the
\* tarball downloads are exactly the `resolved` URLs of the lockfile's
\* entries.
C18_ReplayDownloadsEveryEntry ==
    (Replayed /\ ~start.nodeModules.exists) =>
        downloads = {start.lockfile.lock.packages[k].resolved :
                        k \in DOMAIN start.lockfile.lock.packages}

\* C19: after a frozen replay, for every lockfile entry written from a node
\* named n, the package built from the entry is named n and node_modules/n
\* exists.
C19_ReplayKeepsNames ==
    Replayed =>
        \A k \in DOMAIN start.lockfile.lock.packages :
            LET n == start.lockfile.lock.packages[k].resolved.name
            IN  /\ EntryName(k) = n
                /\ \E p \in installed : p.name = n
                /\ n \in nodeModules.dirs

\* C20: when frozen is set and rjs-lock.json exists but is no lockfile,
\* the command fails: nothing is resolved, nothing is requested from the
\* registry, and node_modules, the lockfile and the manifest stay as they
\* were.
C20_UnreadableLockfileFails ==
    (frozen /\ start.lockfile.kind = "garbage") =>
        /\ pc \in {"start", "failed"}
        /\ fetches = {} /\ downloads = {}
        /\ visited = {} /\ dependencies = <<>> /\ installed = {}
        /\ nodeModules = start.nodeModules
        /\ lockfile = start.lockfile
        /\ manifest = start.manifest

C20_Witness ==
    /\ pc = "failed" /\ frozen
    /\ lockfile = Garbage
    /\ nodeModules.exists
    /\ packages = ("a" :> Caret(1, 0, 0))

\* ------------------------------------- claims on failures and on bounds

\* The registry has the package of the request, and no version of it
\* satisfies the request.
Unmatched(req) ==
    /\ reg[req[1]].exists
    /\ ~\E v \in DOMAIN reg[req[1]].versions : Satisfies(reg[req[1]], req[2], v)

\* C21: a request, top-level or transitive, whose range matches no version
\* of its package leaves no node in the returned resolved set.
C21_UnmatchedRequestHasNoNode ==
    Resolved => \A k \in DOMAIN dependencies : ~Unmatched(k)

\* C22: a failure while resolving one request does not abort the resolve:
\* the returned set has a node for every other request whose
\* resolve_package returned a package, and for every top-level request the
\* registry can satisfy.
C22_FailureKeepsOtherNodes ==
    Resolved =>
        /\ \A c \in calls :
              c.ok => \E k \in DOMAIN dependencies : dependencies[k].name = c.req[1]
        /\ \A n \in DOMAIN rootDeps :
              Resolvable(<<n, rootDeps[n]>>) =>
                  \E k \in DOMAIN dependencies : dependencies[k].name = n

\* A resolve returned in which one request failed and another left a node.
C22_Witness ==
    /\ Resolved
    /\ \E c \in calls : ~c.ok
    /\ \E c \in calls :
          c.ok /\ \E k \in DOMAIN dependencies : dependencies[k].name = c.req[1]

\* install_tree ran in this process.
InstallTreeRan == ~frozen /\ pc \in {"installed", "done", "failed"}

\* C23: an error while one node is materialized fails only that node: the
\* call does not abort, every other node of the tree has its directory, and
\* the nodes returned are those that were materialized.
C23_NodeFailureIsLocal ==
    InstallTreeRan =>
        /\ pc # "failed"
        /\ \A k \in DOMAIN dependencies :
              dependencies[k].name \notin fsFails =>
                  DirExists(nodeModules, dependencies[k].name)
        /\ \A p \in installed : DirExists(nodeModules, p.name)

\* No other node of the resolved set has the name of the node under k.
UniqueName(k) ==
    \A j \in DOMAIN dependencies :
        dependencies[j].name = dependencies[k].name => dependencies[j] = dependencies[k]

\* C24: after successful installs without --frozen, every node of the
\* latest resolved set whose name is unique in it has its package.json in
\* node_modules, recording the node's name, version and dependencies, also
\* when the directory was there before.
C24_PackageJsonRecordsNode ==
    (Done /\ ~frozen) =>
        \A k \in DOMAIN dependencies :
            UniqueName(k) =>
                /\ dependencies[k].name \in DOMAIN pkgJson
                /\ pkgJson[dependencies[k].name] = dependencies[k]

\* The dependency field update_package_json is called for, and the other
\* one.
ChosenField(m) == IF isDev THEN m.devDependencies ELSE m.dependencies

OtherField(m) == IF isDev THEN m.dependencies ELSE m.devDependencies

\* The names of the map execute passes to update_package_json.
GivenNames == {p.name : p \in installed}

\* C25: update_package_json changes only the chosen dependency field: the
\* other top-level fields, the other dependency field and the entries of
\* the chosen field under names that are not in the given map are as they
\* were before the write, and the chosen field exists after it.
C25_UpdateChangesOnlyChosenField ==
    (Done /\ ~frozen /\ start.manifest.exists /\ ~noSave) =>
        /\ manifest.exists
        /\ manifest.rest = start.manifest.rest
        /\ OtherField(manifest) = OtherField(start.manifest)
        /\ ChosenField(manifest).present
        /\ DOMAIN ChosenField(manifest).map =
               DOMAIN ChosenField(start.manifest).map \cup GivenNames
        /\ \A n \in DOMAIN ChosenField(start.manifest).map \ GivenNames :
               ChosenField(manifest).map[n] = ChosenField(start.manifest).map[n]

\* A second install wrote new entries into a dependencies field that had an
\* entry under another name.
C25_Witness ==
    /\ Done
    /\ ~frozen
    /\ run = 2
    /\ GivenNames # {}
    /\ manifest # start.manifest
    /\ \E n \in DOMAIN ChosenField(start.manifest).map : n \notin GivenNames

\* The batch items whose future was created and has not completed.
InFlight == Elements(ready) \cup inflight

\* C26: at every moment of a resolve the number of batch items whose
\* resolution has started and not yet ended is at most the configured
\* concurrency, and the concurrency is at least 1 whatever was passed to
\* with_concurrency.
C26_InFlightWithinConcurrency ==
    /\ concurrency >= 1
    /\ Cardinality(InFlight) <= concurrency

\* Two resolutions are in flight, each waiting for the registry.
C26_Witness ==
    /\ pc = "drain"
    /\ concurrency = 2
    /\ Cardinality(inflight) = 2

\* The requests that hold a permit.
Outstanding == http.metadata + http.tarball

\* C27: the outstanding requests of one registry client and its clones,
\* metadata fetches and tarball downloads together, are never more than
\* 100, however many calls are made; a permit is held exactly as long as its
\* request is outstanding, whether the request succeeds or fails.
C27_OutstandingWithinRateLimit ==
    /\ Outstanding <= rate_limit
    /\ http.permits + Outstanding = rate_limit

\* After a failed request every permit is taken by requests of both kinds,
\* and a further call waits.
C27_Witness ==
    /\ Outstanding = rate_limit
    /\ http.metadata > 0
    /\ http.tarball > 0
    /\ http.idle > 0
    /\ http.failed

\* Both calls of install_from_package_json have returned.
BothCallsReturned == pc = "installed" /\ devCall = "done"

\* C28: when both calls of an install from the manifest have returned, the
\* lockfile on disk has an entry for every node the install resolved,
\* whichever call wrote last.
C28_LockfileHasEveryNode ==
    BothCallsReturned =>
        /\ load_lockfile(lockfile).some
        /\ \A k \in DOMAIN dependencies :
              LockKey(dependencies[k].name, dependencies[k].version)
                  \in DOMAIN load_lockfile(lockfile).lock.packages

\* C29: within one resolve a request key is on the work queue at most once
\* and is never queued again once it was dequeued, so no request is
\* processed twice.
C29_RequestQueuedOnce ==
    pc = "drain" =>
        /\ \A i, j \in DOMAIN workQueue : workQueue[i] = workQueue[j] => i = j
        /\ \A i, j \in DOMAIN batch : batch[i] = batch[j] => i = j
        /\ \A i \in DOMAIN workQueue :
              /\ workQueue[i] \notin Elements(batch)
              /\ \A c \in calls : c.req # workQueue[i]

\* C30: every key of the returned map is `<name>@<exact-version>` of the
\* node stored under it, so the map has at most one node for a name and a
\* version.
C30_KeyIsNameAtVersion ==
    Resolved =>
        /\ \A k \in DOMAIN dependencies :
              KeyString(k) = LockKey(dependencies[k].name, dependencies[k].version)
        /\ \A j, k \in DOMAIN dependencies :
              (/\ dependencies[j].name = dependencies[k].name
               /\ dependencies[j].version = dependencies[k].version) => j = k

\* ------------------------------- claims on reuse, post-pass and the index

\* The batch items whose get_package_info is sent in this step.
NewlyFetched == inflight' \ inflight

\* C31: a request whose range is satisfied by a version of its name chosen
\* earlier in this resolve is answered from the descriptor of that version
\* without a new registry request, and the descriptor is cached under the
\* key of the request.
C31_CompatibleVersionIsReused ==
    [][/\ \A i \in NewlyFetched :
             ~find_compatible_version(dedup, batch[i][1], batch[i][2]).some
       /\ \A c \in calls' \ calls :
             LET hit == find_compatible_version(dedup, c.req[1], c.req[2])
             IN  hit.some =>
                     /\ c.ok
                     /\ c.version = hit.v
                     /\ Key(c.req[1], c.req[2]) \in DOMAIN cache']_vars

\* The request keys get_package_info was called for in this resolve: those
\* whose call is outstanding, those whose package was selected and cached,
\* and those whose resolve_package failed.
FetchedKeys ==
    {Key(batch[i][1], batch[i][2]) : i \in inflight}
        \cup DOMAIN cache
        \cup {Key(c.req[1], c.req[2]) : c \in {d \in calls : ~d.ok}}

\* C32: within one resolver no request key is fetched twice: a
\* get_package_info is sent only for a key that none was sent for before,
\* under every interleaving of the batch tasks, so the version selection
\* that follows the answer runs at most once for a key.
C32_RequestFetchedOnce ==
    [][\A i \in NewlyFetched :
          /\ Key(batch[i][1], batch[i][2]) \notin FetchedKeys
          /\ \A j \in NewlyFetched : batch[j] = batch[i] => j = i]_vars

\* A resolve returned in which a request that was fetched and cached is
\* also the dependency entry of a fetched package: the key was requested
\* twice.
C32_Witness ==
    /\ Resolved
    /\ \E k \in DOMAIN cache :
          \E n \in DOMAIN cache :
              /\ k[1] \in DOMAIN cache[n].dependencies
              /\ cache[n].dependencies[k[1]] = k[2]

\* deduplicate_tree has run on passIn and left `dependencies`.
Deduplicated == pc = "deduplicated"

\* The nodes of a tree with their dependency entries.
NodeSet(tree) == {tree[k] : k \in DOMAIN tree}

\* Every dependency entry of every node of the tree is satisfied by a node
\* of the tree.
Closed(tree) ==
    \A k \in DOMAIN tree :
        \A d \in DOMAIN tree[k].dependencies :
            \E m \in DOMAIN tree :
                /\ tree[m].name = d
                /\ ReqMatches(ParseOrStar(tree[k].dependencies[d]), tree[m].version)

\* C33: the post-pass rewrites the dependency entry of a caller only to a
\* version the caller's original range accepts, and a caller whose range
\* excludes the preferred version keeps a node that satisfies it.
C33_RewriteOnlyWhereRangeAccepts ==
    Deduplicated =>
        \A k \in DOMAIN dependencies :
            \A d \in DOMAIN dependencies[k].dependencies :
                LET orig == passIn[k].dependencies[d]
                    now == dependencies[k].dependencies[d]
                IN  /\ now # orig =>
                          /\ now.kind = "bare"
                          /\ ReqMatches(ParseOrStar(orig), now.v)
                    /\ (\E m \in DOMAIN passIn :
                            /\ passIn[m].name = d
                            /\ ReqMatches(ParseOrStar(orig), passIn[m].version))
                          => \E m \in DOMAIN dependencies :
                                 /\ dependencies[m].name = d
                                 /\ ReqMatches(ParseOrStar(orig),
                                               dependencies[m].version)

\* C34: the post-pass preserves closure: when every dependency entry of
\* the tree it is given is satisfied by a node of the tree, every
\* dependency entry of the tree it leaves is satisfied by a node it leaves.
C34_PassPreservesClosure ==
    (Deduplicated /\ Closed(passIn)) => Closed(dependencies)

\* The pass removed a node from a closed tree and rewrote an entry.
C34_Witness ==
    /\ Deduplicated
    /\ Closed(passIn)
    /\ DOMAIN dependencies # DOMAIN passIn
    /\ \E k \in DOMAIN dependencies :
          dependencies[k].dependencies # passIn[k].dependencies

\* C35: the post-pass is idempotent: run on its own result it removes no
\* node and changes no dependency entry.
C35_PassIdempotent ==
    [][(pc = "deduplicated" /\ pc' = "again") => dependencies' = dependencies]_vars

\* The second pass ran on a tree from which the first had removed a node
\* and in which a name still has several nodes.
C35_Witness ==
    /\ pc = "again"
    /\ DOMAIN dependencies # DOMAIN passIn
    /\ MultiNames(dependencies) # {}

\* C36: the result of the post-pass does not depend on the order in which
\* the name groups and the nodes of equal version are taken: every order
\* leaves the same nodes with the same dependency entries.
C36_PassOrderIndependent ==
    Deduplicated =>
        \A nameOrder \in Orders(MultiNames(passIn)) :
            \A sortedOf \in SortedChoices(passIn) :
                NodeSet(deduplicate_tree(passIn, passIn, nameOrder, sortedOf))
                    = NodeSet(dependencies)

\* ------------------------------------------------ claims on the installer

\* The tasks of the frozen replay that found no directory and are about to
\* create and fill it.
Writing == {k \in DOMAIN handles : handles[k] = "creating"}

\* The package.json files install_tree leaves in a new node_modules when
\* its loop takes the tree in the order `order`.
OnDisk(order) ==
    InstallSteps(CreateDirAll(NoNodeModules, ""), <<>>, dependencies, order, {}).files

\* C37: no two install tasks write to the same package directory, and the
\* package.json files a normal install leaves in a new node_modules are
\* the same for every order in which the nodes are taken.
C37_TasksWriteDisjointDirectories ==
    /\ pc = "replay" =>
           \A j, k \in Writing : j # k => EntryName(j) # EntryName(k)
    /\ (pc = "installed" /\ ~frozen /\ start.nodeModules = NoNodeModules) =>
           \A order \in Orders(DOMAIN dependencies) : OnDisk(order) = pkgJson

\* C38: when the resolved set keeps two versions of a name, the
\* package.json left in node_modules/<name> is that of the node installed
\* last.
C38_SecondWriteWins ==
    (pc = "installed" /\ ~frozen /\ start.nodeModules = NoNodeModules) =>
        \A n \in DOMAIN lastInstalled : pkgJson[n] = lastInstalled[n]

\* ------------------------------------------------ claims on lenient ranges

\* The calls of resolve_package that went to the registry with a range
\* that does not parse, for a name the registry has versions of.
UnparsedCalls ==
    {c \in calls : /\ ~c.seen
                   /\ ~VersionReqParse(c.req[2]).ok
                   /\ reg[c.req[1]].exists
                   /\ DOMAIN reg[c.req[1]].versions # {}}

\* C39: a request whose range does not parse does not fail: it is resolved
\* as the universal range is, to the greatest version of the record.
C39_UnparsedRangeIsUniversal ==
    \A c \in UnparsedCalls :
        /\ c.ok
        /\ c.version \in DOMAIN reg[c.req[1]].versions
        /\ \A v \in DOMAIN reg[c.req[1]].versions : ~VLess(c.version, v)
        /\ BestVersion(reg[c.req[1]], c.req[2]) = BestVersion(reg[c.req[1]], Star)

\* A request with a dist-tag for a range was resolved to a version above
\* the one the tag names.
C39_Witness ==
    \E c \in UnparsedCalls :
        /\ c.ok
        /\ VLess(reg[c.req[1]].latest, c.version)

\* ------------------------------------------------ claims on the index

\* The versions stored for a name.
Stored(index, name) == {e[1] : e \in Elements(index[name])}

\* The stored versions of a name that satisfy a range-spec: the range
\* parses as a semver range and matches the version.
Satisfying(index, name, range) ==
    {v \in Stored(index, name) :
        VersionReqParse(range).ok /\ ReqMatches(VersionReqParse(range), v)}

\* Each list is strictly descending, so that no version is in it twice.
IndexSorted ==
    \A n \in DOMAIN dedup :
        \A i, j \in DOMAIN dedup[n] : i < j => VLess(dedup[n][j][1], dedup[n][i][1])

\* find_compatible_version gives the greatest stored version that
\* satisfies the range, and nothing when there is none.
FindsHighest ==
    \A n \in IndexNames, r \in IndexRanges :
        LET S == Satisfying(dedup, n, r)
            res == find_compatible_version(dedup, n, r)
        IN  IF S = {} THEN res = None
            ELSE /\ res.some
                 /\ res.v \in S
                 /\ \A v \in S : ~VLess(res.v, v)

\* No step removes or changes an entry of the index.
NoEntryRemoved ==
    \A n \in DOMAIN dedup : Elements(dedup[n]) \subseteq Elements(dedup'[n])

\* C40: after any sequence of register and find-compatible operations each
\* list of the index is strictly descending with no version twice, no
\* entry is ever removed, and find-compatible returns the highest stored
\* version that satisfies the range, or nothing when none does.
C40_IndexSortedGrowingFindsHighest ==
    /\ [](pc = "index" => (IndexSorted /\ FindsHighest))
    /\ [][pc = "index" => NoEntryRemoved]_vars

\* A list holds every version and the last lookup returned a version
\* below the first of its list, the highest of several that satisfy the
\* range.
C40_Witness ==
    /\ pc = "index"
    /\ Len(dedup["lib"]) = MaxVersions
    /\ lookup.name = "lib"
    /\ lookup.result.some
    /\ VLess(lookup.result.v, dedup["lib"][1][1])
    /\ Cardinality(Satisfying(dedup, "lib", lookup.range)) > 1

====
